---- MODULE Spec2Model ----
(***************************************************************************)
(* ManUpService (src/src/manup.service.ts): the mandatory/optional update  *)
(* gate.  One step of the model is one turn of the JavaScript event loop:  *)
(* an external event (a validate() call, the readiness signal, the HTTP    *)
(* response, a storage or app-version answer, a button press) together     *)
(* with everything the code runs synchronously or in microtasks until it   *)
(* suspends on the next external collaborator.                             *)
(*                                                                         *)
(* Optional JavaScript values are sequences of length 0 or 1: <<>> is      *)
(* null/undefined, <<x>> is the value x.                                   *)
(***************************************************************************)
EXTENDS Integers, Sequences, FiniteSets, TLC

VARIABLES
    inProgress,      \* ManUpService.inProgress
    currentPromise,  \* ManUpService.currentPromise: 0 = undefined, else index in runs
    runs,            \* one record per `new Promise(...)` of validate(): promise + its callback
    returned,        \* one record per validate() call, in call order
    ready,           \* the host's platform.ready() promise has resolved
    platformNames,   \* the names n for which platform.is(n) is true
    hasStorage,      \* the optional Storage collaborator was injected
    cache,           \* what storage holds under STORAGE_KEY + '.manup'
    appVersion,      \* what AppVersion.getVersionNumber() answers
    alerts,          \* the alerts presented so far (alert.present()), in order
    launched,        \* the urls handed to iab.create(), in order
    presses,         \* number of Update presses so far
    lastSaved,       \* the value the last successful saveMetadata() was given, if any
    effects,         \* how often each external collaborator has been called
    evPolicy, evVersion, evState, evResult   \* a stand-alone call of evaluate()

vars == <<inProgress, currentPromise, runs, returned, ready, platformNames,
          hasStorage, cache, appVersion, alerts, launched, presses, lastSaved,
          effects, evPolicy, evVersion, evState, evResult>>

mainVars == <<inProgress, currentPromise, runs, returned, ready, platformNames,
              hasStorage, cache, appVersion, alerts, launched, presses, lastSaved,
              effects>>

evalVars == <<evPolicy, evVersion, evState, evResult>>

(***************************************************************************)
(* Bounds                                                                  *)
(***************************************************************************)
MaxCalls == 3      \* validate() calls per service instance
MaxPresses == 2    \* presses of the Update button
MaxPart == 1       \* largest major/minor/patch number of the versions compared

(***************************************************************************)
(* Versions and semver.lt                                                  *)
(***************************************************************************)
Ver(ma, mi, pa, pre) ==
    [valid |-> TRUE, major |-> ma, minor |-> mi, patch |-> pa, pre |-> pre]

\* a string semver cannot parse, e.g. "1.0" or "latest"
InvalidVersion ==
    [valid |-> FALSE, major |-> 0, minor |-> 0, patch |-> 0, pre |-> <<>>]

compareIdentifiers(a, b) == IF a < b THEN -1 ELSE IF a > b THEN 1 ELSE 0

compareMain(a, b) ==
    IF compareIdentifiers(a.major, b.major) # 0
    THEN compareIdentifiers(a.major, b.major)
    ELSE IF compareIdentifiers(a.minor, b.minor) # 0
    THEN compareIdentifiers(a.minor, b.minor)
    ELSE compareIdentifiers(a.patch, b.patch)

RECURSIVE comparePreFrom(_, _, _)
comparePreFrom(a, b, i) ==
    IF i > Len(a) /\ i > Len(b) THEN 0
    ELSE IF i > Len(b) THEN 1
    ELSE IF i > Len(a) THEN -1
    ELSE IF a[i] = b[i] THEN comparePreFrom(a, b, i + 1)
    ELSE compareIdentifiers(a[i], b[i])

\* a pre-release sorts before the release it precedes
comparePre(a, b) ==
    IF Len(a.pre) > 0 /\ Len(b.pre) = 0 THEN -1
    ELSE IF Len(a.pre) = 0 /\ Len(b.pre) > 0 THEN 1
    ELSE IF Len(a.pre) = 0 /\ Len(b.pre) = 0 THEN 0
    ELSE comparePreFrom(a.pre, b.pre, 1)

compare(a, b) == IF compareMain(a, b) # 0 THEN compareMain(a, b) ELSE comparePre(a, b)

lt_orEqual(a, b) == compare(a, b) <= 0

\* semver.lt(a, b) for two parseable versions
lt(a, b) == compare(a, b) < 0

\* semver.lt throws a TypeError when either argument does not parse
ltThrows(a, b) == ~a.valid \/ ~b.valid

(***************************************************************************)
(* AlertType and evaluate()                                                *)
(***************************************************************************)
MANDATORY == "MANDATORY"
OPTIONAL == "OPTIONAL"
MAINTENANCE == "MAINTENANCE"
NOP == "NOP"
THROWN == "thrown"     \* the call ended in an exception / a rejected promise
NONE == "none"         \* no value yet

AlertType == {MANDATORY, OPTIONAL, MAINTENANCE, NOP}

\* evaluate(), first part: `if (!metadata.enabled)` before the version is awaited
evaluateDisabled(pd) == ~pd.enabled

evaluateVersion_latestFirst(pd, version) ==
    IF ltThrows(version, pd.latest) THEN THROWN
    ELSE IF lt(version, pd.latest) THEN OPTIONAL
    ELSE IF ltThrows(version, pd.minimum) THEN THROWN
    ELSE IF lt(version, pd.minimum) THEN MANDATORY
    ELSE NOP

\* evaluate(), after `await this.AppVersion.getVersionNumber()` answered `version`
evaluateVersion(pd, version) ==
    IF ltThrows(version, pd.minimum) THEN THROWN
    ELSE IF lt(version, pd.minimum) THEN MANDATORY
    ELSE IF ltThrows(version, pd.latest) THEN THROWN
    ELSE IF lt(version, pd.latest) THEN OPTIONAL
    ELSE NOP

(***************************************************************************)
(* Metadata documents and their JSON text                                  *)
(***************************************************************************)
PlatformKeys == <<"ios", "android", "windows">>

Policy(min, latest, url, enabled) ==
    [minimum |-> min, latest |-> latest, url |-> url, enabled |-> enabled]

\* JSON.stringify: the text lists the properties that are present, in order;
\* null becomes the text `null`
RECURSIVE stringifyFrom(_, _)
stringifyFrom(doc, i) ==
    IF i > Len(PlatformKeys) THEN <<>>
    ELSE LET k == PlatformKeys[i]
             rest == stringifyFrom(doc, i + 1)
         IN  IF doc[k] = <<>> THEN rest
             ELSE <<[key |-> k,
                     value |-> <<doc[k][1].minimum, doc[k][1].latest,
                                 <<doc[k][1].url>>, <<doc[k][1].enabled>> >>]>> \o rest

JSONstringify(json) ==
    IF json = <<>> THEN [kind |-> "null", entries |-> <<>>]
    ELSE [kind |-> "object", entries |-> stringifyFrom(json[1], 1)]

RECURSIVE lookup(_, _, _)
lookup(entries, k, i) ==
    IF i > Len(entries) THEN <<>>
    ELSE IF entries[i].key = k
    THEN <<Policy(entries[i].value[1], entries[i].value[2],
                  entries[i].value[3][1], entries[i].value[4][1])>>
    ELSE lookup(entries, k, i + 1)

JSONparse_null(data) == <<>>

JSONparse_orEmptyObject(data) ==
    IF data = <<>> \/ data[1].kind = "null"
    THEN <<[k \in {"ios", "android", "windows"} |-> <<>>]>>
    ELSE <<[k \in {"ios", "android", "windows"} |-> lookup(data[1].entries, k, 1)]>>

\* JSON.parse(data) of what storage.get answered: a stored text, or null when
\* nothing is stored (JSON.parse(null) parses the text "null")
JSONparse(data) ==
    IF data = <<>> THEN <<>>
    ELSE IF data[1].kind = "null" THEN <<>>
    ELSE <<[k \in {"ios", "android", "windows"} |-> lookup(data[1].entries, k, 1)]>>

(***************************************************************************)
(* getPlatformData                                                         *)
(***************************************************************************)
\* [threw, value]: value is metadata.<platform>, which may be undefined
getPlatformData(metadata, names) ==
    IF metadata = <<>> THEN [threw |-> TRUE, value |-> <<>>]
    ELSE IF "ios" \in names THEN [threw |-> FALSE, value |-> metadata[1]["ios"]]
    ELSE IF "android" \in names THEN [threw |-> FALSE, value |-> metadata[1]["android"]]
    ELSE IF "windows" \in names THEN [threw |-> FALSE, value |-> metadata[1]["windows"]]
    ELSE [threw |-> TRUE, value |-> <<>>]

(***************************************************************************)
(* The documents and versions the coordinator is run on                    *)
(***************************************************************************)
V100 == Ver(1, 0, 0, <<>>)
V200 == Ver(2, 0, 0, <<>>)
V300 == Ver(3, 0, 0, <<>>)

Doc(ios, android, windows) ==
    [k \in {"ios", "android", "windows"} |->
        IF k = "ios" THEN ios ELSE IF k = "android" THEN android ELSE windows]

DocAll ==
    Doc(<<Policy(V200, V300, "store/ios", TRUE)>>,
        <<Policy(V200, V300, "store/android", TRUE)>>,
        <<Policy(V200, V300, "store/windows", TRUE)>>)

DocIosOnly == Doc(<<Policy(V200, V300, "store/ios", TRUE)>>, <<>>, <<>>)

DocDisabled ==
    Doc(<<Policy(V200, V300, "store/ios", FALSE)>>,
        <<Policy(V200, V300, "store/android", FALSE)>>,
        <<Policy(V200, V300, "store/windows", FALSE)>>)

\* what response.json() can yield: a document, or JSON null
RemoteJson == {<<>>, <<DocAll>>, <<DocIosOnly>>, <<DocDisabled>>}

\* platform.is(...) of the host: an iOS, Android or Windows device, or a browser
HostPlatforms == {{"ios", "mobile"}, {"android", "mobile"}, {"windows"}, {"core"}}

AppVersions == {V100, V200, V300, InvalidVersion}

\* storage content left by an earlier process of the application: nothing, or
\* the text an earlier saveMetadata(j) wrote
EarlierSaves == {<<>>} \cup {<<j>> : j \in RemoteJson}

StoredText(saved) == IF saved = <<>> THEN <<>> ELSE <<JSONstringify(saved[1])>>

(***************************************************************************)
(* validate(): the promise and the callback of one check                   *)
(***************************************************************************)
NewRun ==
    [pc |-> "ready_wait",     \* where the callback of platform.ready() stands
     promise |-> "pending",   \* the state of the promise created at line 107
     http |-> NONE,           \* outcome of http.get: none, ok, network, malformed
     response |-> <<>>,       \* <<json>>: what response.json() yielded
     mdState |-> NONE,        \* metadata(): none, returned, rejected
     md |-> <<>>,             \* the value metadata() returned
     selected |-> FALSE,      \* getPlatformData returned
     platformData |-> <<>>,   \* the value getPlatformData returned
     result |-> NONE,         \* the value evaluate() returned
     error |-> NONE,          \* the error that ended the callback
     save |-> NONE,           \* saveMetadata(): none, pending, ok, failed
     dismissed |-> FALSE]     \* the user pressed Not Now

PromiseState(p) == IF p = 0 THEN "resolved" ELSE runs[p].promise

NeedsNewCheck_always(flag) == TRUE

NeedsNewCheck_onceSettled(flag) == ~flag \/ PromiseState(currentPromise) = "resolved"

\* line 105: `if (!this.inProgress)`
NeedsNewCheck(flag) == ~flag

Fail_rejects(r, why) == [r EXCEPT !.pc = "failed", !.error = why, !.promise = "rejected"]

\* an exception inside the async callback of platform.ready().then(...): the
\* callback's own promise is rejected, nothing observes it, and neither
\* resolve nor reject of the promise of line 107 is called
Fail(r, why) == [r EXCEPT !.pc = "failed", !.error = why]

ResolvesAtOnce_never(result) == FALSE

ResolvesAtOnce_alsoBlocking(result) == result \in {NOP, MANDATORY, MAINTENANCE}

\* lines 115-118: `case AlertType.NOP: resolve()`
ResolvesAtOnce(result) == result = NOP

\* lines 115-121 after evaluate() has settled with `result`
AfterEvaluate(r, result) ==
    IF result = THROWN THEN Fail(r, "version-compare")
    ELSE IF ResolvesAtOnce(result)
    THEN [r EXCEPT !.result = result, !.promise = "resolved", !.pc = "done"]
    ELSE [r EXCEPT !.result = result, !.pc = "appname_wait"]

AfterMetadata_noNullCheck(r, md) ==
    LET r1 == [r EXCEPT !.mdState = "returned", !.md = md]
        sel == getPlatformData(md, platformNames)
        r2 == [r1 EXCEPT !.selected = TRUE, !.platformData = sel.value]
    IN  IF sel.threw THEN Fail(r1, "unknown-platform")
        ELSE IF sel.value = <<>> THEN Fail(r2, "no-platform-entry")
        ELSE IF evaluateDisabled(sel.value[1]) THEN AfterEvaluate(r2, MAINTENANCE)
        ELSE [r2 EXCEPT !.pc = "version_wait"]

\* lines 109-114 after metadata() has returned `md`
AfterMetadata(r, md) ==
    LET r1 == [r EXCEPT !.mdState = "returned", !.md = md]
        sel == getPlatformData(md, platformNames)
        r2 == [r1 EXCEPT !.selected = TRUE, !.platformData = sel.value]
    IN  IF md = <<>> THEN [r1 EXCEPT !.promise = "resolved", !.pc = "done"]
        ELSE IF sel.threw THEN Fail(r1, "unknown-platform")
        ELSE IF sel.value = <<>> THEN Fail(r2, "no-platform-entry")
        ELSE IF evaluateDisabled(sel.value[1]) THEN AfterEvaluate(r2, MAINTENANCE)
        ELSE [r2 EXCEPT !.pc = "version_wait"]

\* metadataFromStorage(): storage.get is issued, or the call throws
metadataFromStorage(r) ==
    IF hasStorage THEN [r EXCEPT !.pc = "storage_wait"]
    ELSE [Fail(r, "storage-not-configured") EXCEPT !.mdState = "rejected"]

\* the buttons of the three alerts
Buttons(kind) ==
    IF kind = MANDATORY THEN {"update"}
    ELSE IF kind = OPTIONAL THEN {"later", "update"}
    ELSE {}

presentAlert_swapped(type) ==
    IF type = MANDATORY THEN OPTIONAL
    ELSE IF type = OPTIONAL THEN MANDATORY
    ELSE IF type = MAINTENANCE THEN MAINTENANCE
    ELSE NONE

\* presentAlert, lines 232-241: the alert each AlertType is dispatched to (named
\* by its AlertType); no case matches NOP
presentAlert(type) ==
    IF type = MANDATORY THEN MANDATORY
    ELSE IF type = OPTIONAL THEN OPTIONAL
    ELSE IF type = MAINTENANCE THEN MAINTENANCE
    ELSE NONE

\* line 120: the second argument of presentAlert is `metadata`, the whole
\* ManUpData document, not the PlatformData that was evaluated
presentAlertArgument(r) == [isPlatformData |-> FALSE, document |-> r.md, policy |-> <<>>]

\* `platformData.url` in the Update handlers (lines 286, 323): a PlatformData
\* has a url, a ManUpData document (lines 59-63) has no such property
urlProperty(arg) == IF arg.isPlatformData THEN <<arg.policy[1].url>> ELSE <<>>

UpdateUrl(r) == urlProperty(presentAlertArgument(r))

saveAttempted_always(storage) == TRUE

\* line 159: `if (this.storage)`
saveAttempted(storage) == storage

EffectNames == {"http", "read", "write", "version", "appname", "alert", "launch"}

NoEffects == [e \in EffectNames |-> 0]

Bump(f, names) == [e \in EffectNames |-> IF e \in names THEN f[e] + 1 ELSE f[e]]

\* the collaborator call a callback that has moved to r.pc has just issued
Awaited(r) ==
    IF r.pc = "http_wait" THEN {"http"}
    ELSE IF r.pc = "storage_wait" THEN {"read"}
    ELSE IF r.pc = "version_wait" THEN {"version"}
    ELSE IF r.pc = "appname_wait" THEN {"appname"}
    ELSE {}

(***************************************************************************)
(* Actions                                                                 *)
(***************************************************************************)
\* validate(), lines 103-129.  Nothing in the try block throws synchronously
\* (an exception inside the executor of `new Promise` rejects that promise, and
\* the callback of platform.ready() runs later, outside the try), so the catch
\* of lines 126-128 is never entered.
Validate ==
    /\ Len(returned) < MaxCalls
    /\ IF NeedsNewCheck(inProgress)
       THEN /\ inProgress' = TRUE
            /\ runs' = Append(runs, NewRun)
            /\ currentPromise' = Len(runs) + 1
       ELSE UNCHANGED <<inProgress, runs, currentPromise>>
    /\ returned' = Append(returned,
                          [promise |-> currentPromise',
                           stateAtCall |-> IF NeedsNewCheck(inProgress) THEN "new"
                                           ELSE PromiseState(currentPromise),
                           afterDismissal |-> \E i \in 1 .. Len(runs) : runs[i].dismissed])
    /\ UNCHANGED <<ready, platformNames, hasStorage, cache, appVersion, alerts,
                   launched, presses, lastSaved, effects, evalVars>>

\* the host's readiness signal: platform.ready() resolves (it never rejects)
PlatformReady ==
    /\ ~ready
    /\ ready' = TRUE
    /\ UNCHANGED <<inProgress, currentPromise, runs, returned, platformNames,
                   hasStorage, cache, appVersion, alerts, launched, presses, lastSaved,
                   effects, evalVars>>

\* the callback of run i moves to r, calling the collaborators in `called` and
\* the one it then waits for
Step(i, r, called) ==
    /\ runs' = [runs EXCEPT ![i] = r]
    /\ effects' = Bump(effects, called \cup (IF r.pc # runs[i].pc THEN Awaited(r) ELSE {}))
    /\ UNCHANGED <<inProgress, currentPromise, returned, ready, platformNames,
                   hasStorage, appVersion, presses, evalVars>>

ReadyCallback_noWait(i) ==
    /\ runs[i].pc = "ready_wait"
    /\ Step(i, [runs[i] EXCEPT !.pc = "http_wait"], {})
    /\ UNCHANGED <<cache, alerts, launched, lastSaved>>

\* the callback of platform.ready() starts: metadata() issues http.get
ReadyCallback(i) ==
    /\ ready
    /\ runs[i].pc = "ready_wait"
    /\ Step(i, [runs[i] EXCEPT !.pc = "http_wait"], {})
    /\ UNCHANGED <<cache, alerts, launched, lastSaved>>

\* http.get answers and response.json() parses: lines 159-162, then 110-121
HttpResponds(i, json) ==
    /\ runs[i].pc = "http_wait"
    /\ Step(i, AfterMetadata([runs[i] EXCEPT
                                 !.http = "ok",
                                 !.response = <<json>>,
                                 !.save = IF saveAttempted(hasStorage) THEN "pending" ELSE NONE],
                             json),
               IF saveAttempted(hasStorage) THEN {"write"} ELSE {})
    /\ UNCHANGED <<cache, alerts, launched, lastSaved>>

\* http.get fails, or response.json() throws: the catch of line 163
HttpFails(i, why) ==
    /\ runs[i].pc = "http_wait"
    /\ Step(i, metadataFromStorage([runs[i] EXCEPT !.http = why]), {})
    /\ UNCHANGED <<cache, alerts, launched, lastSaved>>

\* storage.get answers: line 179, then 110-121.  The cache collaborator answers
\* a stored text or null; it has no failing answer for a read
StorageAnswers(i) ==
    /\ runs[i].pc = "storage_wait"
    /\ Step(i, AfterMetadata(runs[i], JSONparse(cache)), {})
    /\ UNCHANGED <<cache, alerts, launched, lastSaved>>

\* storage.set of saveMetadata() succeeds
SaveSucceeds(i) ==
    /\ runs[i].save = "pending"
    /\ cache' = <<JSONstringify(runs[i].md)>>
    /\ lastSaved' = <<runs[i].md>>
    /\ Step(i, [runs[i] EXCEPT !.save = "ok"], {})
    /\ UNCHANGED <<alerts, launched>>

\* storage.set fails: `.catch(() => {})` of line 160
SaveFails(i) ==
    /\ runs[i].save = "pending"
    /\ Step(i, [runs[i] EXCEPT !.save = "failed"], {})
    /\ UNCHANGED <<cache, alerts, launched, lastSaved>>

\* AppVersion.getVersionNumber() answers: lines 141-146, then 115-121
VersionAnswers(i) ==
    /\ runs[i].pc = "version_wait"
    /\ Step(i, AfterEvaluate(runs[i], evaluateVersion(runs[i].platformData[1], appVersion)),
               {})
    /\ UNCHANGED <<cache, alerts, launched, lastSaved>>

VersionFails(i) ==
    /\ runs[i].pc = "version_wait"
    /\ Step(i, Fail(runs[i], "version-query"), {})
    /\ UNCHANGED <<cache, alerts, launched, lastSaved>>

\* AppVersion.getAppName() answers: the alert is created and presented
AppNameAnswers(i) ==
    /\ runs[i].pc = "appname_wait"
    /\ alerts' = Append(alerts, presentAlert(runs[i].result))
    /\ Step(i, [runs[i] EXCEPT !.pc = "alert"], {"alert"})
    /\ UNCHANGED <<cache, launched, lastSaved>>

AppNameFails(i) ==
    /\ runs[i].pc = "appname_wait"
    /\ Step(i, Fail(runs[i], "app-name"), {})
    /\ UNCHANGED <<cache, alerts, launched, lastSaved>>

\* the Not Now handler: resolve() of the promise of line 304; the callback
\* returned that promise (line 120), and nothing uses the callback's result
PressNotNow(i) ==
    /\ runs[i].pc = "alert"
    /\ "later" \in Buttons(runs[i].result)
    /\ Step(i, [runs[i] EXCEPT !.pc = "done", !.dismissed = TRUE], {})
    /\ UNCHANGED <<cache, alerts, launched, lastSaved>>

\* the Update handler: iab.create(platformData.url, '_system'); return false
PressUpdate(i) ==
    /\ runs[i].pc = "alert"
    /\ "update" \in Buttons(runs[i].result)
    /\ presses < MaxPresses
    /\ launched' = Append(launched, UpdateUrl(runs[i]))
    /\ presses' = presses + 1
    /\ effects' = Bump(effects, {"launch"})
    /\ UNCHANGED <<inProgress, currentPromise, runs, returned, ready, platformNames,
                   hasStorage, cache, appVersion, alerts, lastSaved, evalVars>>

(***************************************************************************)
(* A stand-alone call of evaluate(policy) with the app at evVersion        *)
(***************************************************************************)
Parts == 0 .. MaxPart

EvalVersions ==
    {Ver(ma, mi, pa, pre) : ma \in Parts, mi \in Parts, pa \in Parts,
                            pre \in {<<>>, <<0>>, <<1>>, <<0, 1>>}} \cup {InvalidVersion}

EvalIdle ==
    /\ evPolicy = Policy(InvalidVersion, InvalidVersion, "", FALSE)
    /\ evVersion = InvalidVersion
    /\ evState = "unused"
    /\ evResult = NONE

EvalInputs ==
    /\ evPolicy \in {Policy(mn, la, "store", en) :
                        mn \in EvalVersions, la \in EvalVersions, en \in BOOLEAN}
    /\ evVersion \in EvalVersions
    /\ evState = "idle"
    /\ evResult = NONE

\* lines 137-140
EvalCall ==
    /\ evState = "idle"
    /\ IF evaluateDisabled(evPolicy)
       THEN evState' = "returned" /\ evResult' = MAINTENANCE
       ELSE evState' = "awaiting" /\ evResult' = NONE
    /\ UNCHANGED <<evPolicy, evVersion, mainVars>>

\* lines 141-146
EvalVersionAnswers ==
    /\ evState = "awaiting"
    /\ evResult' = evaluateVersion(evPolicy, evVersion)
    /\ evState' = IF evResult' = THROWN THEN "rejected" ELSE "returned"
    /\ UNCHANGED <<evPolicy, evVersion, mainVars>>

\* getVersionNumber() rejects
EvalVersionFails ==
    /\ evState = "awaiting"
    /\ evResult' = THROWN
    /\ evState' = "query-failed"
    /\ UNCHANGED <<evPolicy, evVersion, mainVars>>

(***************************************************************************)
(* Specifications                                                          *)
(***************************************************************************)
MainInit ==
    /\ inProgress = FALSE
    /\ currentPromise = 0
    /\ runs = <<>>
    /\ returned = <<>>
    /\ ready = FALSE
    /\ platformNames \in HostPlatforms
    /\ hasStorage \in BOOLEAN
    /\ lastSaved \in (IF hasStorage THEN EarlierSaves ELSE {<<>>})
    /\ cache = StoredText(lastSaved)
    /\ appVersion \in AppVersions
    /\ alerts = <<>>
    /\ launched = <<>>
    /\ presses = 0
    /\ effects = NoEffects

MainIdle ==
    /\ inProgress = FALSE
    /\ currentPromise = 0
    /\ runs = <<>>
    /\ returned = <<>>
    /\ ready = FALSE
    /\ platformNames = {"core"}
    /\ hasStorage = FALSE
    /\ lastSaved = <<>>
    /\ cache = <<>>
    /\ appVersion = InvalidVersion
    /\ alerts = <<>>
    /\ launched = <<>>
    /\ presses = 0
    /\ effects = NoEffects

Init == MainInit /\ EvalIdle

Next ==
    \/ Validate
    \/ PlatformReady
    \/ \E i \in 1 .. Len(runs) : ReadyCallback(i)
    \/ \E i \in 1 .. Len(runs), json \in RemoteJson : HttpResponds(i, json)
    \/ \E i \in 1 .. Len(runs), why \in {"network", "malformed"} : HttpFails(i, why)
    \/ \E i \in 1 .. Len(runs) : StorageAnswers(i)
    \/ \E i \in 1 .. Len(runs) : SaveSucceeds(i)
    \/ \E i \in 1 .. Len(runs) : SaveFails(i)
    \/ \E i \in 1 .. Len(runs) : VersionAnswers(i)
    \/ \E i \in 1 .. Len(runs) : VersionFails(i)
    \/ \E i \in 1 .. Len(runs) : AppNameAnswers(i)
    \/ \E i \in 1 .. Len(runs) : AppNameFails(i)
    \/ \E i \in 1 .. Len(runs) : PressNotNow(i)
    \/ \E i \in 1 .. Len(runs) : PressUpdate(i)

Spec == Init /\ [][Next]_vars

EvalNext == EvalCall \/ EvalVersionAnswers \/ EvalVersionFails

EvalInit == EvalInputs /\ MainIdle

SpecEval == EvalInit /\ [][EvalNext]_vars

(***************************************************************************)
(* Properties                                                              *)
(***************************************************************************)
Calls == 1 .. Len(returned)

Runs == 1 .. Len(runs)

\* the state of the result handed to the c-th caller of validate()
CallerResult(c) == PromiseState(returned[c].promise)

Terminated(r) == r.pc \in {"done", "failed"}

RemoteFailed(r) == r.http \in {"network", "malformed"}

\* C1: over any sequence of validate() calls the pipeline is started at most
\* once: inProgress is set by the first call and never reset, and every later
\* call returns the promise of the first call without starting a pipeline.
ThmC1 ==
    /\ [](/\ Len(runs) <= 1
          /\ inProgress <=> Len(returned) > 0
          /\ \A c \in Calls : /\ returned[c].promise = 1
                              /\ (returned[c].stateAtCall = "new") <=> (c = 1))
    /\ [][/\ inProgress => inProgress'
          /\ Len(runs') # Len(runs) => (~inProgress /\ Len(returned) = 0)]_vars

\* three calls, one pipeline: the second call came while the check was pending,
\* the third after it had settled
WitC1 ==
    /\ Len(returned) = 3
    /\ Len(runs) = 1
    /\ returned[2].stateAtCall = "pending"
    /\ returned[3].stateAtCall = "resolved"

\* C2: the results handed to any two callers of validate() are at all times
\* both pending or both resolved, and they become resolved in the same step,
\* whether the later call came before or after the first one settled.
ThmC2 ==
    /\ [](\A c, d \in Calls : /\ CallerResult(c) = CallerResult(d)
                              /\ CallerResult(c) \in {"pending", "resolved"})
    /\ [][\A c, d \in Calls :
             (CallerResult(c) = "pending" /\ CallerResult(c)' = "resolved")
                 => CallerResult(d)' = "resolved"]_vars

\* two calls before the check settled and one after it, all three resolved
WitC2 ==
    /\ Len(returned) = 3
    /\ returned[2].stateAtCall = "pending"
    /\ returned[3].stateAtCall = "resolved"
    /\ \A c \in Calls : CallerResult(c) = "resolved"

\* C3: when the remote fetch fails and no Storage is configured, the promise
\* of validate() is resolved once the check has run (after readiness).
CexC3 ==
    \A i \in Runs :
        (RemoteFailed(runs[i]) /\ ~hasStorage /\ Terminated(runs[i]))
            => runs[i].promise = "resolved"

\* C4: an error raised after metadata was obtained (unknown platform, missing
\* platform entry, failing version query, failing version comparison) ends
\* with the promise of validate() resolved.
CexC4 ==
    \A i \in Runs :
        (/\ runs[i].mdState = "returned"
         /\ runs[i].md # <<>>
         /\ runs[i].error \in {"unknown-platform", "no-platform-entry",
                               "version-query", "version-compare"})
            => runs[i].promise = "resolved"

\* C5: when the classification is Optional and the user pressed Not Now, the
\* promise of validate() is resolved.
CexC5 ==
    \A i \in Runs :
        (runs[i].result = OPTIONAL /\ runs[i].dismissed) => runs[i].promise = "resolved"

\* C6: when the classification is Mandatory or Disabled the promise of
\* validate() is never resolved, whatever the user presses and however many
\* further validate() calls are made.
InvC6 ==
    \A i \in Runs :
        runs[i].result \in {MANDATORY, MAINTENANCE}
            => /\ runs[i].promise = "pending"
               /\ PromiseState(currentPromise) = "pending"
               /\ \A c \in Calls : CallerResult(c) = "pending"

\* a mandatory alert on which Update was pressed twice, with a further call
\* of validate() made while it was shown
WitC6 ==
    /\ Len(runs) = 1
    /\ runs[1].result = MANDATORY
    /\ runs[1].pc = "alert"
    /\ Len(launched) >= 2
    /\ Len(returned) >= 2

\* semantic-version precedence, stated on the version's parts
PreBefore(p, q) ==
    \/ Len(p) > 0 /\ Len(q) = 0
    \/ /\ Len(p) > 0
       /\ Len(q) > 0
       /\ \E n \in 1 .. Len(p) + 1 :
             /\ \A m \in 1 .. n - 1 : m <= Len(q) /\ p[m] = q[m]
             /\ \/ n = Len(p) + 1 /\ Len(q) >= n
                \/ n <= Len(p) /\ n <= Len(q) /\ p[n] < q[n]

Before(a, b) ==
    \/ a.major < b.major
    \/ a.major = b.major /\ a.minor < b.minor
    \/ a.major = b.major /\ a.minor = b.minor /\ a.patch < b.patch
    \/ a.major = b.major /\ a.minor = b.minor /\ a.patch = b.patch /\ PreBefore(a.pre, b.pre)

\* C7: evaluate() returns MAINTENANCE when the policy is not enabled, whatever
\* the version; else MANDATORY when running < minimum; else OPTIONAL when
\* running < latest; else NOP.  A version equal to minimum is never MANDATORY
\* and one equal to latest never OPTIONAL.
InvC7 ==
    /\ (evState \in {"returned", "rejected", "query-failed"} /\ ~evPolicy.enabled)
          => (evState = "returned" /\ evResult = MAINTENANCE)
    /\ (/\ evState \in {"returned", "rejected"}
        /\ evPolicy.enabled
        /\ evVersion.valid /\ evPolicy.minimum.valid /\ evPolicy.latest.valid)
          => /\ evState = "returned"
             /\ evResult = IF Before(evVersion, evPolicy.minimum) THEN MANDATORY
                           ELSE IF Before(evVersion, evPolicy.latest) THEN OPTIONAL
                           ELSE NOP
             /\ evVersion = evPolicy.minimum => evResult # MANDATORY
             /\ evVersion = evPolicy.latest => evResult # OPTIONAL

\* a version equal to minimum and below latest, classified OPTIONAL
WitC7 ==
    /\ evState = "returned"
    /\ evPolicy.enabled
    /\ evVersion = evPolicy.minimum
    /\ evResult = OPTIONAL

\* C8: once the check has classified the running version as Proceed (readiness
\* arrived, metadata obtained, the platform has an entry), the promise of
\* validate() is resolved and no alert was presented.
InvC8 ==
    \A i \in Runs :
        runs[i].result = NOP
            => /\ runs[i].promise = "resolved"
               /\ \A c \in Calls : CallerResult(c) = "resolved"
               /\ runs[i].pc = "done"
               /\ alerts = <<>>

WitC8 ==
    /\ Len(runs) = 1
    /\ ready
    /\ runs[1].mdState = "returned"
    /\ runs[1].platformData # <<>>
    /\ runs[1].result = NOP
    /\ Len(returned) >= 1

\* C9: when the remote retrieval fails (network error or malformed payload)
\* and the cache holds a previously saved document, metadata() returns a
\* document equal to the last one saved, and does not fail.
InvC9 ==
    \A i \in Runs :
        (/\ RemoteFailed(runs[i])
         /\ hasStorage
         /\ lastSaved # <<>>
         /\ runs[i].pc # "storage_wait")
            => /\ runs[i].mdState = "returned"
               /\ runs[i].md = lastSaved[1]

\* a malformed payload, and the cached document (one with absent platforms)
\* returned
WitC9 ==
    /\ Len(runs) = 1
    /\ runs[1].http = "malformed"
    /\ runs[1].mdState = "returned"
    /\ lastSaved = <<<<DocIosOnly>>>>
    /\ runs[1].md = <<DocIosOnly>>

\* C10: getPlatformData fails when the current platform is a recognized one
\* and the metadata has no entry for it; it never returns an absent policy.
CexC10 ==
    \A i \in Runs :
        (runs[i].mdState = "returned" /\ runs[i].md # <<>>)
            => LET sel == getPlatformData(runs[i].md, platformNames)
               IN  /\ ~sel.threw => sel.value # <<>>
                   /\ runs[i].selected => runs[i].platformData # <<>>

\* C11: every url handed to the external-link launcher is the url of the
\* policy that was selected for the current platform and classified.
CexC11 ==
    \A k \in 1 .. Len(launched) :
        \E i \in Runs : /\ runs[i].platformData # <<>>
                        /\ launched[k] = <<runs[i].platformData[1].url>>

NothingPersisted == hasStorage /\ lastSaved = <<>>

\* C12 as claimed: metadataFromStorage() with Storage configured and nothing
\* ever persisted ends in a failure and returns no value.
CexC12 ==
    \A i \in Runs :
        (RemoteFailed(runs[i]) /\ NothingPersisted /\ runs[i].pc # "storage_wait")
            => runs[i].mdState = "rejected"

\* C12 as amended: metadataFromStorage() with Storage configured and nothing
\* ever persisted does not fail; it returns null (no document).
InvC12 ==
    \A i \in Runs :
        (RemoteFailed(runs[i]) /\ NothingPersisted /\ runs[i].pc # "storage_wait")
            => /\ runs[i].mdState = "returned"
               /\ runs[i].md = <<>>
               /\ runs[i].error = NONE

WitC12 ==
    /\ Len(runs) = 1
    /\ NothingPersisted
    /\ runs[1].http = "network"
    /\ runs[1].mdState = "returned"
    /\ effects["read"] = 1

\* C13: when the remote fetch fails and Storage is configured but holds no
\* document, validate() resolves as soon as the cache has answered: no platform
\* selection, no classification and no alert take place.
InvC13 ==
    \A i \in Runs :
        (RemoteFailed(runs[i]) /\ NothingPersisted /\ runs[i].pc # "storage_wait")
            => /\ runs[i].promise = "resolved"
               /\ runs[i].pc = "done"
               /\ \A c \in Calls : CallerResult(c) = "resolved"
               /\ ~runs[i].selected
               /\ runs[i].result = NONE
               /\ effects["version"] = 0 /\ effects["appname"] = 0 /\ effects["alert"] = 0
               /\ alerts = <<>>

WitC13 ==
    /\ Len(runs) = 1
    /\ NothingPersisted
    /\ runs[1].http = "malformed"
    /\ runs[1].pc = "done"
    /\ Len(returned) >= 2

\* C14: when the remote retrieval succeeds, metadata() returns the retrieved
\* document whether the cache write succeeded, failed or is outstanding; the
\* cache is never read, and without Storage no write is attempted.
InvC14 ==
    \A i \in Runs :
        runs[i].http = "ok"
            => /\ runs[i].mdState = "returned"
               /\ runs[i].md = runs[i].response[1]
               /\ runs[i].pc # "storage_wait"
               /\ effects["read"] = 0
               /\ runs[i].error # "storage-not-configured"
               /\ hasStorage => runs[i].save \in {"pending", "ok", "failed"}
               /\ ~hasStorage => (runs[i].save = NONE /\ effects["write"] = 0)

\* the cache write failed and the retrieved document was returned all the same
WitC14 ==
    /\ Len(runs) = 1
    /\ runs[1].http = "ok"
    /\ runs[1].save = "failed"
    /\ runs[1].mdState = "returned"
    /\ runs[1].md = <<DocAll>>

\* C15: the cache is read at most once and written at most once; it is written
\* only after a successful remote retrieval and read only after a failed one,
\* never both.
InvC15 ==
    /\ effects["read"] <= 1
    /\ effects["write"] <= 1
    /\ effects["write"] > 0 => \E i \in Runs : runs[i].http = "ok"
    /\ effects["read"] > 0 => \E i \in Runs : RemoteFailed(runs[i])
    /\ ~(effects["read"] > 0 /\ effects["write"] > 0)
    /\ \A i \in Runs : (runs[i].save # NONE) => (runs[i].http = "ok" /\ effects["write"] = 1)

WitC15 ==
    /\ Len(returned) = 3
    /\ effects["write"] = 1
    /\ \E i \in Runs : runs[i].save = "ok" /\ Terminated(runs[i])

\* C16: before the host readiness signal has fired there is no remote fetch,
\* cache read, cache write, app-version query or alert, and the shared result
\* is pending, however many times validate() is called.
InvC16 ==
    ~ready => /\ effects = NoEffects
              /\ alerts = <<>>
              /\ launched = <<>>
              /\ cache = StoredText(lastSaved)
              /\ \A i \in Runs : runs[i].pc = "ready_wait" /\ runs[i].promise = "pending"
              /\ \A c \in Calls : CallerResult(c) = "pending"

WitC16 == ~ready /\ Len(returned) = 3

\* the classification of the running version v under policy p, by precedence
Classified(p, v) ==
    IF ~p.enabled THEN MAINTENANCE
    ELSE IF Before(v, p.minimum) THEN MANDATORY
    ELSE IF Before(v, p.latest) THEN OPTIONAL
    ELSE NOP

\* C17: an alert is presented only when the classification completed with
\* Optional, Mandatory or Disabled, and it is the alert of that classification;
\* on every failure path and on Proceed no alert is presented.
InvC17 ==
    /\ \A k \in 1 .. Len(alerts) :
          /\ alerts[k] \in {OPTIONAL, MANDATORY, MAINTENANCE}
          /\ \E i \in Runs :
                /\ runs[i].platformData # <<>>
                /\ runs[i].result = alerts[k]
                /\ runs[i].platformData[1].enabled => appVersion.valid
                /\ alerts[k] = Classified(runs[i].platformData[1], appVersion)
    /\ Len(alerts) = effects["alert"]
    /\ \A i \in Runs :
          (\/ runs[i].pc = "failed"
           \/ runs[i].result = NOP
           \/ runs[i].mdState = "returned" /\ runs[i].md = <<>>)
              => alerts = <<>>

WitC17 ==
    /\ alerts = <<OPTIONAL>>
    /\ Len(runs) = 1
    /\ runs[1].result = OPTIONAL

\* C18: at most one alert is ever presented, however many validate() calls
\* are made, also after an Optional alert has been dismissed.
InvC18 == Len(alerts) <= 1 /\ effects["alert"] <= 1

\* the third call came after the Optional alert had been dismissed
WitC18 ==
    /\ Len(returned) = 3
    /\ returned[3].afterDismissal
    /\ Len(alerts) = 1

\* C19: for an enabled policy whose minimum is greater than its latest,
\* evaluate() never returns OPTIONAL: MANDATORY when running < minimum, NOP
\* otherwise.
InvC19 ==
    (/\ evState \in {"returned", "rejected"}
     /\ evPolicy.enabled
     /\ evVersion.valid /\ evPolicy.minimum.valid /\ evPolicy.latest.valid
     /\ Before(evPolicy.latest, evPolicy.minimum))
        => /\ evState = "returned"
           /\ evResult # OPTIONAL
           /\ evResult = IF Before(evVersion, evPolicy.minimum) THEN MANDATORY ELSE NOP

\* a running version between latest and minimum
WitC19 ==
    /\ evState = "returned"
    /\ evPolicy.enabled
    /\ Before(evPolicy.latest, evVersion)
    /\ Before(evVersion, evPolicy.minimum)
    /\ evResult = MANDATORY

\* C20: the promise returned by validate() is never rejected: the shared
\* result and every caller's result are pending or resolved.
InvC20 ==
    /\ \A i \in Runs : runs[i].promise \in {"pending", "resolved"}
    /\ PromiseState(currentPromise) \in {"pending", "resolved"}
    /\ \A c \in Calls : CallerResult(c) \in {"pending", "resolved"}

\* the callback ended in an exception and the promise is still pending
WitC20 ==
    /\ Len(runs) = 1
    /\ runs[1].pc = "failed"
    /\ runs[1].promise = "pending"
    /\ Len(returned) >= 1

====
